---- MODULE Spec2Model ----
(***************************************************************************)
(* Model of the LXD backend: the instance controller LXDVirtualMachine     *)
(* (construction, start, stop, suspend, the readiness guard, IP discovery) *)
(* and the image vault LXDVMImageVault (fetch_image and its poll loop).    *)
(*                                                                         *)
(* Every remote request is a step boundary: the reply of the daemon is an  *)
(* input chosen from a small set.  Each caller thread records the remote   *)
(* calls, state writes and persist calls of its current operation in       *)
(* trace[t], so that the claims can speak about what one call did.         *)
(***************************************************************************)
EXTENDS Integers, Sequences, FiniteSets, TLC

\* ---------------------------------------------------------------- bounds
\* in-progress replies a task poll loop may receive before the remote
\* has to answer with something else
MaxPolls == 2
\* iterations of try_action_for before its deadline has passed
TimeoutTicks == 2
\* largest disk size a description asks for, in GiB
MaxDisk == 20

\* ---------------------------------------------------------------- values
Threads == {"t1", "t2"}
NoThread == "none"

States == {"off", "starting", "running", "stopped", "suspending", "suspended",
           "delayed_shutdown", "unknown"}

\* status codes the daemon may report for an instance; 100 stands for a code
\* outside the switch, -1 for a reply without status_code (toInt(-1))
StatusCodes == {101, 102, 103, 104, 106, 107, 108, 109, 110, 111, 100, -1}
\* the codes the mapper is applied to on its own: those and their neighbours
AllCodes == StatusCodes \cup {99, 105, 112, 200}

\* MemorySize values, in GiB
DiskSizes == 0..MaxDisk
NoSize == -1

Addresses == {"10.0.0.1", "10.0.0.2"}
nullopt == "nullopt"

\* exceptions raised by the transport (lxd_request)
LXDNotFoundException == "LXDNotFoundException"
LXDFailure == "lxd_request failure"
TransportExceptions == {LXDNotFoundException, LXDFailure}

\* exceptions raised by the controller itself
StartWhileSuspending == "cannot start the instance while suspending"
SuspendUnsupported == "suspend is currently not supported"
StartException == "StartException"
IPTimeout == "failed to determine IP address"

Exceptions == TransportExceptions \cup
              {StartWhileSuspending, SuspendUnsupported, StartException, IPTimeout}

\* replies of lxd_request to a PUT/POST: the envelope fields the code reads
JsonReplies == [class : {"task", "sync"}, status_code : {100, 200}]

\* replies to a GET on an operation URL: error_code and metadata.status_code
TaskReplies == [error_code : {0, 1}, status_code : {103, 200, 400}]

\* what one GET of a scripted poll is answered: a reply or an exception
ScriptReplies ==
    [raised : {"none"}, error_code : {0, 1}, status_code : {103, 200, 400}]
        \cup [raised : TransportExceptions, error_code : {0}, status_code : {0}]
\* the reply sequences a poll loop is run against on its own
Scripts == UNION {[1..n -> ScriptReplies] : n \in 1..(MaxPolls + 1)}

\* the image hosts handed to the vault, in construction order
image_hosts == <<"h1", "h2">>
Hosts == {image_hosts[i] : i \in DOMAIN image_hosts}
Remotes == {"release", "daily"}
Images == {"img1", "img2"}
QueryTypes == {"Alias", "LocalFile", "HttpDownload"}
Queries == [query_type : QueryTypes, remote_name : Remotes \cup {""}]
NoQuery == [query_type |-> "none", remote_name |-> ""]

\* exceptions raised by the vault
UnsupportedSource == "http and file based images are not supported"
UnknownRemote == "Remote is unknown"
NoMatchingImage == "Unable to find an image matching"
AbortedDownloadException == "AbortedDownloadException"

VARIABLES
    state,        \* VirtualMachine::state
    ip,           \* VirtualMachine::ip (optional<IPAddress>)
    port,         \* LXDVirtualMachine::port (optional<int>)
    state_mutex,  \* owner of state_mutex
    state_wait,   \* threads asleep on the condition variable state_wait
    constructed,  \* the constructor has returned
    pc,           \* position of each thread inside its operation
    op,           \* operation each thread is executing
    present,      \* local present_state of start()/stop()
    state_task,   \* local state_task of stop(): the reply to its PUT
    trace,        \* events of the current operation of each thread
    res           \* value returned or exception raised by the operation

VARIABLES
    url_supported,         \* mp::platform::is_image_url_supported()
    platform_remotes,      \* remotes for which is_remote_supported() holds
    supported_remotes,     \* supported_remotes() of each image host
    remote_image_host_map, \* LXDVMImageVault::remote_image_host_map
    vpc,                   \* position of the caller inside fetch_image
    query,                 \* the Query of the current fetch_image call
    info,                  \* local info of fetch_image: the resolved image
    vtrace,                \* events of the current fetch_image call
    vres                   \* image returned or exception raised

VARIABLES
    status_code,  \* metadata["status_code"].toInt(-1) of a state reply
    mapped,       \* what instance_state_for returned for it
    log,          \* levels of the log lines instance_state_for emitted
    disk_space,   \* desc.disk_space of a description
    root_size,    \* devices["root"]["size"] of the create request built for it
    poller,       \* which poll loop runs on its own: "create" or "pull"
    script,       \* the replies its GETs will receive, in order
    gets,         \* GETs on the task URL it has sent
    sleeps,       \* times it has slept
    poll_status,  \* "polling", "sleeping", "stopped" (left by break) or what it raised
    state_before, \* the member state when current_state() is called
    state_after,  \* the member state when current_state() returns
    returned      \* the value current_state() returns

pollvars == <<poller, script, gets, sleeps, poll_status>>

fnvars == <<status_code, mapped, log, disk_space, root_size, state_before, state_after, returned,
            pollvars>>

vaultvars == <<url_supported, platform_remotes, supported_remotes, remote_image_host_map,
               vpc, query, info, vtrace, vres>>

vmvars == <<state, ip, port, state_mutex, state_wait, constructed,
            pc, op, present, state_task, trace, res>>

\* ---------------------------------------------------------------- events
GetState == <<"GET", "state">>
GetIp == <<"GET", "ip">>
GetWait == <<"GET", "operations/id/wait">>
GetTask == <<"GET", "operations/id">>
PostCreate == <<"POST", "virtual-machines">>
Put(action) == <<"PUT", action>>
SetState(s) == <<"state", s>>
Persist(s) == <<"persist_state_for", s>>
Sleep == <<"sleep", "1s">>
Notify == <<"notify_all", "state_wait">>
CvWait == <<"wait", "state_wait">>

\* what a request or an image host is answered
Reply(r) == <<"reply", r>>

RemoteCall(e) == e[1] \in {"GET", "PUT", "POST", "DELETE"}

Count(s, e) == Cardinality({i \in DOMAIN s : s[i] = e})

\* the events of writing local state: recorded only when the value changes
Write(old, new) == IF old = new THEN <<>> ELSE <<SetState(new)>>

\* the assignment state = present_state of current_state() (line 286)
Overwrite(old, new) == IF old = new THEN <<>> ELSE <<SetState("present_state")>>

\* the early return of current_state() (lines 283-284): the state read from
\* the remote is recorded when the local state is returned in its place
Dropped(read, returned_state) ==
    IF read = returned_state THEN <<>> ELSE <<Reply(read)>>

\* ------------------------------------------------------- pure functions
\* Stopping is taken for stopped
instance_state_for_mut(code) ==
    CASE code \in {101, 103, 111} -> "running"
      [] code \in {102, 107} -> "stopped"
      [] code = 106 -> "starting"
      [] code = 109 -> "suspending"
      [] code = 110 -> "suspended"
      [] OTHER -> "unknown"

\* instance_state_for, lines 52-75: the switch on the status code
instance_state_for(code) ==
    CASE code \in {101, 103, 107, 111} -> "running"
      [] code = 102 -> "stopped"
      [] code = 106 -> "starting"
      [] code = 109 -> "suspending"
      [] code = 110 -> "suspended"
      [] code \in {104, 108} -> "unknown"
      [] OTHER -> "unknown"

\* the case labels of the switch
CaseLabels == {101, 103, 107, 111, 102, 106, 109, 110, 104, 108}

\* instance_state_for, lines 49-50 and 71-73: the log lines of one call, the
\* trace line of every call and the error line of the default branch
instance_state_log(code) ==
    <<"trace">> \o (IF code \in CaseLabels THEN <<>> ELSE <<"error">>)

\* the comparison reversed
get_minimum_disk_size_mut(requested_disk_size) ==
    LET lxd_min_disk_size == 10
    IN  IF requested_disk_size < lxd_min_disk_size
        THEN requested_disk_size
        ELSE lxd_min_disk_size

\* get_minimum_disk_size, lines 96-108 (sizes in GiB, "10G" is 10)
get_minimum_disk_size(requested_disk_size) ==
    LET lxd_min_disk_size == 10
    IN  IF requested_disk_size > lxd_min_disk_size
        THEN requested_disk_size
        ELSE lxd_min_disk_size

\* a read that overwrites starting too
current_state_mut(local, present_state) ==
    IF local = "delayed_shutdown" /\ present_state = "running"
    THEN local
    ELSE present_state

\* the value current_state() leaves in state (and returns) when the remote
\* maps to present_state
current_state(local, present_state) ==
    IF (local = "delayed_shutdown" /\ present_state = "running") \/ local = "starting"
    THEN local
    ELSE present_state

IsTask(reply) == reply.class = "task" /\ reply.status_code = 100

\* what the reply to a GET on a task reports
reply_kind(reply) ==
    IF reply.error_code # 0 THEN "error"
    ELSE IF reply.status_code = 200 THEN "success"
    ELSE "in progress"

\* a loop that goes on after a success reply
poll_ends_mut(reply) == reply.error_code # 0

\* the two breaks of a poll loop on a reply (part_000 lines 176-185, vault
\* lines 164-173)
poll_ends(reply) == reply.error_code # 0 \/ reply.status_code = 200

\* no reply received yet
NoReply == [class |-> "none", status_code |-> 0]

\* ------------------------------------------------------- thread helpers
\* a finished call is handed back to its caller before anything else runs
NoneDone == \A u \in Threads : pc[u] # "done"

Idle(t) == constructed /\ NoneDone /\ pc[t] = "idle"

\* the operation of t ends, returning or raising r
Finish(t, r, events) ==
    /\ pc' = [pc EXCEPT ![t] = "done"]
    /\ res' = [res EXCEPT ![t] = r]
    /\ trace' = [trace EXCEPT ![t] = @ \o events]

Goto(t, label, events) ==
    /\ pc' = [pc EXCEPT ![t] = label]
    /\ trace' = [trace EXCEPT ![t] = @ \o events]
    /\ UNCHANGED res

Begin(t, name) == op' = [op EXCEPT ![t] = name]

\* ------------------------------------------------------ vault construction
\* a constructor that keeps the host a remote was first assigned to
RegisterHost_mut(m, i, supported, platform) ==
    LET h == image_hosts[i]
        mine == {r \in supported[h] : r \in platform}
    IN  [r \in DOMAIN m \cup mine |-> IF r \in DOMAIN m THEN m[r] ELSE h]

\* the inner loop of the constructor for the host at position i: every remote
\* the host reports and the platform supports is (re)assigned to that host
RegisterHost(m, i, supported, platform) ==
    LET h == image_hosts[i]
        mine == {r \in supported[h] : r \in platform}
    IN  [r \in DOMAIN m \cup mine |-> IF r \in mine THEN h ELSE m[r]]

RECURSIVE RegisterHosts(_, _, _, _)
RegisterHosts(m, i, supported, platform) ==
    IF i > Len(image_hosts) THEN m
    ELSE RegisterHosts(RegisterHost(m, i, supported, platform), i + 1, supported, platform)

\* LXDVMImageVault::LXDVMImageVault: the registry after the loop over image_hosts
LXDVMImageVault(supported, platform) == RegisterHosts(<<>>, 1, supported, platform)

\* a vault on which no fetch_image runs
VaultIdle ==
    /\ vpc = "idle"
    /\ query = NoQuery
    /\ info = nullopt
    /\ vtrace = <<>>
    /\ vres = "none"

\* no function has been applied on its own
FnIdle ==
    /\ status_code = -1
    /\ mapped = "none"
    /\ log = <<>>
    /\ disk_space = 0
    /\ root_size = NoSize
    /\ state_before = "off"
    /\ state_after = "none"
    /\ returned = "none"
    /\ poller = "none"
    /\ script = <<>>
    /\ gets = 0
    /\ sleeps = 0
    /\ poll_status = "idle"

\* the controller before its constructor body runs: the base class
\* VirtualMachine starts in State::off with no address
VMInit ==
    /\ state = "off"
    /\ ip = nullopt
    /\ port = nullopt
    /\ state_mutex = NoThread
    /\ state_wait = {}
    /\ constructed = FALSE
    /\ pc = [t \in Threads |-> IF t = "t1" THEN "ctor_read" ELSE "idle"]
    /\ op = [t \in Threads |-> IF t = "t1" THEN "ctor" ELSE "none"]
    /\ present = [t \in Threads |-> "none"]
    /\ state_task = [t \in Threads |-> NoReply]
    /\ trace = [t \in Threads |-> <<>>]
    /\ res = [t \in Threads |-> "none"]

Init ==
    /\ VMInit
    /\ VaultIdle
    /\ FnIdle
    /\ url_supported = FALSE
    /\ platform_remotes = Remotes
    /\ supported_remotes = [h \in Hosts |-> Remotes]
    /\ remote_image_host_map = LXDVMImageVault(supported_remotes, platform_remotes)

\* ---------------------------------------------------------- construction
\* any exception of the first read is taken for a missing instance
needs_creation_mut(r) == r \in TransportExceptions

\* constructor, line 125: the handler that creates the instance
needs_creation(r) == r = LXDNotFoundException

\* LXDVirtualMachine::LXDVirtualMachine, first current_state()
ctor_read(t) ==
    /\ UNCHANGED <<vaultvars, fnvars>>
    /\ pc[t] = "ctor_read"
    /\ NoneDone
    /\ UNCHANGED <<ip, port, state_mutex, state_wait, constructed, op, state_task>>
    /\ \/ \E code \in StatusCodes :
            LET s == current_state(state, instance_state_for(code)) IN
            /\ state' = s
            /\ present' = [present EXCEPT ![t] = s]
            /\ Finish(t, "void", <<GetState>> \o Overwrite(state, s))
       \/ \E r \in TransportExceptions :
            /\ IF needs_creation(r)
               THEN Goto(t, "ctor_post", <<GetState, Reply(r)>>)
               ELSE Finish(t, r, <<GetState, Reply(r)>>)
            /\ UNCHANGED <<state, present>>

\* the create POST inside the not-found handler
ctor_post(t) ==
    /\ UNCHANGED <<vaultvars, fnvars>>
    /\ pc[t] = "ctor_post"
    /\ NoneDone
    /\ UNCHANGED <<state, ip, port, state_mutex, state_wait, constructed, op, present>>
    /\ \/ \E reply \in JsonReplies :
            /\ state_task' = [state_task EXCEPT ![t] = reply]
            /\ Goto(t, IF IsTask(reply) THEN "ctor_poll" ELSE "ctor_reread", <<PostCreate>>)
       \/ \E e \in TransportExceptions :
            /\ Finish(t, e, <<PostCreate>>)
            /\ UNCHANGED state_task

\* one iteration of the while (true) poll loop of the constructor
ctor_poll(t) ==
    /\ UNCHANGED <<vaultvars, fnvars>>
    /\ pc[t] = "ctor_poll"
    /\ NoneDone
    /\ UNCHANGED <<state, ip, port, state_mutex, state_wait, constructed, op, present, state_task>>
    /\ \/ \E reply \in TaskReplies :
            IF poll_ends(reply)
            THEN Goto(t, "ctor_reread", <<GetTask>>)
            ELSE /\ Count(trace[t], Sleep) < MaxPolls
                 /\ Goto(t, "ctor_poll", <<GetTask, Sleep>>)
       \/ Goto(t, "ctor_reread", <<GetTask>>)       \* LXDNotFoundException: break
       \/ Finish(t, LXDFailure, <<GetTask>>)

\* the current_state() that ends the not-found handler
ctor_reread(t) ==
    /\ UNCHANGED <<vaultvars, fnvars>>
    /\ pc[t] = "ctor_reread"
    /\ NoneDone
    /\ UNCHANGED <<ip, port, state_mutex, state_wait, constructed, op, state_task>>
    /\ \/ \E code \in StatusCodes :
            LET s == current_state(state, instance_state_for(code)) IN
            /\ state' = s
            /\ present' = [present EXCEPT ![t] = s]
            /\ Finish(t, "void", <<GetState>> \o Overwrite(state, s))
       \/ \E e \in TransportExceptions :
            /\ Finish(t, e, <<GetState>>)
            /\ UNCHANGED <<state, present>>

\* ------------------------------------------------------------------ start
\* start(), line 211: present_state = current_state()
start_read(t) ==
    /\ UNCHANGED <<vaultvars, fnvars>>
    /\ Idle(t)
    /\ Begin(t, "start")
    /\ UNCHANGED <<ip, port, state_mutex, state_wait, constructed, state_task>>
    /\ \/ \E code \in StatusCodes :
            LET read == instance_state_for(code)
                s == current_state(state, read)
            IN  /\ state' = s
                /\ present' = [present EXCEPT ![t] = s]
                /\ Goto(t, "start_check",
                        <<GetState>> \o Dropped(read, s) \o Overwrite(state, s))
       \/ \E e \in TransportExceptions :
            /\ Finish(t, e, <<GetState>>)
            /\ UNCHANGED <<state, present>>

\* start() that never resumes
start_action_mut(s) == "start"

\* the action start() asks for, decided on the member state (line 219)
start_action(s) == IF s = "suspended" THEN "unfreeze" ELSE "start"

\* start() without the suspending check
start_rejects_mut(p) == FALSE

\* start(), line 216: the state in which start() refuses to act
start_rejects(p) == p = "suspending"

\* start() that takes a start under way for done
start_is_noop_mut(p) == p = "running" \/ p = "starting"

\* start(), line 213: the state in which start() returns at once
start_is_noop(p) == p = "running"

\* start(), lines 213-227: the two early exits and request_state
start_check(t) ==
    /\ UNCHANGED <<vaultvars, fnvars>>
    /\ pc[t] = "start_check"
    /\ NoneDone
    /\ UNCHANGED <<state, ip, port, state_mutex, state_wait, constructed, op, present, state_task>>
    /\ IF start_is_noop(present[t]) THEN Finish(t, "void", <<>>)
       ELSE IF start_rejects(present[t]) THEN Finish(t, StartWhileSuspending, <<>>)
       ELSE \/ Goto(t, "start_set", <<Put(start_action(state))>>)
            \/ \E e \in TransportExceptions : Finish(t, e, <<Put(start_action(state))>>)

\* start(), lines 229-230: state = starting; update_state()
start_set(t) ==
    /\ UNCHANGED <<vaultvars, fnvars>>
    /\ pc[t] = "start_set"
    /\ NoneDone
    /\ state' = "starting"
    /\ Finish(t, "void", Write(state, "starting") \o <<Persist("starting")>>)
    /\ UNCHANGED <<ip, port, state_mutex, state_wait, constructed, op, present, state_task>>

\* ------------------------------------------------------------------- stop
\* stop() that also acts on an instance it found stopped
stop_branch_of_mut(p) ==
    IF p = "running" \/ p = "delayed_shutdown" \/ p = "stopped" THEN "stop"
    ELSE IF p = "starting" THEN "starting"
    ELSE IF p = "suspended" THEN "suspended"
    ELSE "none"

\* which branch of stop() the value of present_state selects (lines 238-263)
stop_branch_of(p) ==
    IF p = "running" \/ p = "delayed_shutdown" THEN "stop"
    ELSE IF p = "starting" THEN "starting"
    ELSE IF p = "suspended" THEN "suspended"
    ELSE "none"

\* stop(), lines 235-236: take the lock, present_state = current_state();
\* an exception unwinds through the unique_lock, which releases the mutex
stop_read(t) ==
    /\ UNCHANGED <<vaultvars, fnvars>>
    /\ Idle(t)
    /\ state_mutex = NoThread
    /\ Begin(t, "stop")
    /\ UNCHANGED <<ip, port, state_wait, constructed, state_task>>
    /\ \/ \E code \in StatusCodes :
            LET s == current_state(state, instance_state_for(code)) IN
            /\ state' = s
            /\ present' = [present EXCEPT ![t] = s]
            /\ state_mutex' = t
            /\ Goto(t, "stop_branch", <<GetState>> \o Overwrite(state, s))
       \/ \E e \in TransportExceptions :
            /\ Finish(t, e, <<GetState>>)
            /\ UNCHANGED <<state, present, state_mutex>>

\* stop(), lines 250-251 and 265-266: state = stopped; port = nullopt;
\* update_state(); unlock
stop_set(t, events) ==
    /\ state' = "stopped"
    /\ port' = nullopt
    /\ state_mutex' = NoThread
    /\ Finish(t, "void", events \o Write(state, "stopped") \o <<Persist("stopped")>>)
    /\ UNCHANGED <<ip, state_wait>>

\* stop(), the branch taken on present_state
stop_branch(t) ==
    /\ UNCHANGED <<vaultvars, fnvars>>
    /\ pc[t] = "stop_branch"
    /\ NoneDone
    /\ UNCHANGED <<constructed, op, present>>
    /\ LET b == stop_branch_of(present[t]) IN
       \/ /\ b = "stop"
          /\ \/ \E reply \in JsonReplies :
                  /\ state_task' = [state_task EXCEPT ![t] = reply]
                  /\ IF IsTask(reply)
                     THEN /\ Goto(t, "stop_wait", <<Put("stop")>>)
                          /\ UNCHANGED <<state, ip, port, state_mutex, state_wait>>
                     ELSE stop_set(t, <<Put("stop")>>)
             \/ \E e \in TransportExceptions :
                  /\ Finish(t, e, <<Put("stop")>>)
                  /\ state_mutex' = NoThread
                  /\ UNCHANGED <<state, ip, port, state_wait, state_task>>
       \/ /\ b = "starting"
          /\ state' = "off"
          /\ Goto(t, "stop_put", Write(state, "off") \o <<Put("stop")>>)
          /\ UNCHANGED <<ip, port, state_mutex, state_wait, state_task>>
       \/ /\ b \in {"suspended", "none"}
          /\ state_mutex' = NoThread
          /\ Finish(t, "void", <<Persist(state)>>)
          /\ UNCHANGED <<state, ip, port, state_wait, state_task>>

\* stop() that does not wait for the operation
stop_wait_mut(t) ==
    /\ UNCHANGED <<vaultvars, fnvars>>
    /\ pc[t] = "stop_wait"
    /\ NoneDone
    /\ UNCHANGED <<constructed, op, present, state_task>>
    /\ stop_set(t, <<>>)

\* stop(), line 247: the GET on the wait URL of the operation
stop_wait(t) ==
    /\ UNCHANGED <<vaultvars, fnvars>>
    /\ pc[t] = "stop_wait"
    /\ NoneDone
    /\ UNCHANGED <<constructed, op, present, state_task>>
    /\ \/ \E reply \in TaskReplies : stop_set(t, <<GetWait, Reply(reply_kind(reply))>>)
       \/ \E e \in TransportExceptions :
            /\ Finish(t, e, <<GetWait>>)
            /\ state_mutex' = NoThread
            /\ UNCHANGED <<state, ip, port, state_wait>>

\* after state_wait.wait returned: port = nullopt; update_state(); unlock
stop_after_wait(t, events) ==
    /\ port' = nullopt
    /\ state_mutex' = NoThread
    /\ Finish(t, "void", events \o <<Persist(state)>>)
    /\ UNCHANGED <<state, ip>>

\* stop(), lines 256-257: the PUT of the starting branch returns and
\* state_wait.wait evaluates its predicate; when false it releases the lock
stop_put(t) ==
    /\ UNCHANGED <<vaultvars, fnvars>>
    /\ pc[t] = "stop_put"
    /\ NoneDone
    /\ UNCHANGED <<constructed, op, present, state_task>>
    /\ \/ IF state = "stopped"
          THEN /\ stop_after_wait(t, <<>>)
               /\ UNCHANGED state_wait
          ELSE /\ state_wait' = state_wait \cup {t}
               /\ state_mutex' = NoThread
               /\ Goto(t, "stop_waiting", <<CvWait>>)
               /\ UNCHANGED <<state, ip, port>>
       \/ \E e \in TransportExceptions :
            /\ Finish(t, e, <<>>)
            /\ state_mutex' = NoThread
            /\ UNCHANGED <<state, ip, port, state_wait>>

\* a waiter that was woken takes the lock again and re-evaluates the predicate
stop_woken(t) ==
    /\ UNCHANGED <<vaultvars, fnvars>>
    /\ pc[t] = "stop_woken"
    /\ NoneDone
    /\ state_mutex = NoThread
    /\ UNCHANGED <<constructed, op, present, state_task>>
    /\ IF state = "stopped"
       THEN /\ stop_after_wait(t, <<>>)
            /\ UNCHANGED state_wait
       ELSE /\ state_wait' = state_wait \cup {t}
            /\ Goto(t, "stop_waiting", <<>>)
            /\ UNCHANGED <<state, ip, port, state_mutex>>

\* std::condition_variable may wake a waiter without a notification
SpuriousWakeup(t) ==
    /\ UNCHANGED <<vaultvars, fnvars>>
    /\ t \in state_wait
    /\ NoneDone
    /\ state_wait' = state_wait \ {t}
    /\ pc' = [pc EXCEPT ![t] = "stop_woken"]
    /\ UNCHANGED <<state, ip, port, state_mutex, constructed, op, present, state_task, trace, res>>

\* ---------------------------------------------------------------- suspend
\* a suspend() that freezes the instance
suspend_mut(t) ==
    /\ UNCHANGED <<vaultvars, fnvars>>
    /\ Idle(t)
    /\ Begin(t, "suspend")
    /\ state' = "suspended"
    /\ Finish(t, "void", <<Put("freeze"), SetState("suspended")>>)
    /\ UNCHANGED <<ip, port, state_mutex, state_wait, constructed, present, state_task>>

\* suspend(), lines 274-277
suspend(t) ==
    /\ UNCHANGED <<vaultvars, fnvars>>
    /\ Idle(t)
    /\ Begin(t, "suspend")
    /\ Finish(t, SuspendUnsupported, <<>>)
    /\ UNCHANGED <<state, ip, port, state_mutex, state_wait, constructed, present, state_task>>

\* ------------------------------------------------------- readiness guard
\* ensure_vm_is_running() run by t; on a normal return t goes to label
\* (or ends its operation when label is "done")
EnsureRunning(t, label) ==
    /\ state_mutex = NoThread
    /\ UNCHANGED <<ip, port, state_mutex, constructed, present, state_task>>
    /\ \/ \E code \in StatusCodes :
            LET s == current_state(state, instance_state_for(code)) IN
            IF s = "off"
            THEN /\ state' = "stopped"
                 /\ state_wait' = {}
                 /\ pc' = [u \in Threads |-> IF u = t THEN "done"
                                             ELSE IF u \in state_wait THEN "stop_woken"
                                             ELSE pc[u]]
                 /\ res' = [res EXCEPT ![t] = StartException]
                 /\ trace' = [trace EXCEPT ![t] =
                                @ \o <<GetState, SetState("stopped"), Notify>>]
            ELSE /\ state' = s
                 /\ UNCHANGED state_wait
                 /\ IF label = "done"
                    THEN Finish(t, "void", <<GetState>> \o Overwrite(state, s))
                    ELSE Goto(t, label, <<GetState>> \o Overwrite(state, s))
       \/ \E e \in TransportExceptions :
            /\ Finish(t, e, <<GetState>>)
            /\ UNCHANGED <<state, state_wait>>

\* one call of the guard as made by wait_until_ssh_up
ensure_vm_is_running(t) ==
    /\ UNCHANGED <<vaultvars, fnvars>>
    /\ Idle(t)
    /\ Begin(t, "ensure_vm_is_running")
    /\ EnsureRunning(t, "done")

\* ----------------------------------------------------------- IP discovery
\* ssh_hostname(), line 315
ssh_hostname(t) ==
    /\ UNCHANGED <<vaultvars, fnvars>>
    /\ Idle(t)
    /\ Begin(t, "ssh_hostname")
    /\ IF ip # nullopt THEN Finish(t, ip, <<>>) ELSE Goto(t, "ssh_ensure", <<>>)
    /\ UNCHANGED <<state, ip, port, state_mutex, state_wait, constructed, present, state_task>>

\* the action of ssh_hostname(), line 318
ssh_ensure(t) ==
    /\ UNCHANGED <<vaultvars, fnvars>>
    /\ pc[t] = "ssh_ensure"
    /\ NoneDone
    /\ UNCHANGED op
    /\ EnsureRunning(t, "ssh_getip")

\* the action asks for another try whatever the lookup found
action_result_mut(found) == "retry"

\* the action of ssh_hostname(), lines 320-327: TimeoutAction::done or retry
action_result(found) == IF found # nullopt THEN "done" ELSE "retry"

\* try_action_for: the deadline, in polling intervals, has passed
deadline_passed(ticks) == ticks >= TimeoutTicks

\* the action of ssh_hostname(), lines 319-327, and the loop of try_action_for
ssh_getip(t) ==
    /\ UNCHANGED <<vaultvars, fnvars>>
    /\ pc[t] = "ssh_getip"
    /\ NoneDone
    /\ UNCHANGED <<state, port, state_mutex, state_wait, constructed, op, present, state_task>>
    /\ \/ \E found \in Addresses \cup {nullopt} :
            /\ ip' = found
            /\ IF action_result(found) = "done"
               THEN Finish(t, found, <<GetIp>>)
               ELSE IF deadline_passed(Count(trace[t], Sleep) + 1)
               THEN Finish(t, IPTimeout, <<GetIp, Sleep>>)
               ELSE Goto(t, "ssh_ensure", <<GetIp, Sleep>>)
       \/ \E e \in TransportExceptions :
            /\ Finish(t, e, <<GetIp>>)
            /\ UNCHANGED ip

\* the empty lookup is returned as it is
ipv4_returns_mut(found) == found

\* ipv4(), lines 346-350: what the call returns after a lookup
ipv4_returns(found) == IF found = nullopt THEN "UNKNOWN" ELSE found

\* ipv4(), lines 341-351
ipv4(t) ==
    /\ UNCHANGED <<vaultvars, fnvars>>
    /\ Idle(t)
    /\ Begin(t, "ipv4")
    /\ UNCHANGED <<state, port, state_mutex, state_wait, constructed, present, state_task>>
    /\ IF ip # nullopt
       THEN /\ Finish(t, ip, <<>>)
            /\ UNCHANGED ip
       ELSE \/ \E found \in Addresses \cup {nullopt} :
                 /\ ip' = found
                 /\ Finish(t, ipv4_returns(found), <<GetIp>>)
            \/ \E e \in TransportExceptions :
                 /\ Finish(t, e, <<GetIp>>)
                 /\ UNCHANGED ip

\* ------------------------------------------------------------ environment
\* the caller takes the result; a constructor that raised leaves no object
Return(t) ==
    /\ UNCHANGED <<vaultvars, fnvars>>
    /\ pc[t] = "done"
    /\ op[t] = "ctor" => res[t] = "void"
    /\ pc' = [pc EXCEPT ![t] = "idle"]
    /\ op' = [op EXCEPT ![t] = "none"]
    /\ present' = [present EXCEPT ![t] = "none"]
    /\ state_task' = [state_task EXCEPT ![t] = NoReply]
    /\ trace' = [trace EXCEPT ![t] = <<>>]
    /\ res' = [res EXCEPT ![t] = "none"]
    /\ constructed' = TRUE
    /\ UNCHANGED <<state, ip, port, state_mutex, state_wait>>

\* the daemon's delayed-shutdown timer marks a running instance
DelayedShutdown ==
    /\ UNCHANGED <<vaultvars, fnvars>>
    /\ constructed
    /\ NoneDone
    /\ state = "running"
    /\ state' = "delayed_shutdown"
    /\ UNCHANGED <<ip, port, state_mutex, state_wait, constructed, pc, op, present, state_task, trace, res>>

Next ==
    \/ \E t \in Threads :
        \/ ctor_read(t) \/ ctor_post(t) \/ ctor_poll(t) \/ ctor_reread(t)
        \/ start_read(t) \/ start_check(t) \/ start_set(t)
        \/ stop_read(t) \/ stop_branch(t) \/ stop_wait(t) \/ stop_put(t) \/ stop_woken(t)
        \/ SpuriousWakeup(t)
        \/ suspend(t)
        \/ ensure_vm_is_running(t)
        \/ ssh_hostname(t) \/ ssh_ensure(t) \/ ssh_getip(t)
        \/ ipv4(t)
        \/ Return(t)
    \/ DelayedShutdown

vars == <<vmvars, vaultvars, fnvars>>

Spec == Init /\ [][Next]_vars

TypeOK ==
    /\ state \in States
    /\ ip \in Addresses \cup {nullopt}
    /\ state_mutex \in Threads \cup {NoThread}
    /\ state_wait \subseteq Threads

\* ------------------------------------------------------------ image vault
GetInstance == <<"GET", "virtual_machines/name">>
GetImage == <<"GET", "images/id">>
PostImage == <<"POST", "images">>
DeleteTask == <<"DELETE", "operations/id">>
FullHash(h) == <<"info_for_full_hash", h>>
InfoFor(h) == <<"info_for", h>>
Monitor(answer) == <<"monitor", answer>>
\* what the GET of the instance was answered, and whether an image host
\* knew the hash it was asked for
Instance(r) == <<"instance", r>>
HashInfo(known) == <<"hash_info", IF known THEN "known" ELSE "unknown">>

VFinish(r, events) ==
    /\ vpc' = "done"
    /\ vres' = r
    /\ vtrace' = vtrace \o events

VGoto(label, events) ==
    /\ vpc' = label
    /\ vtrace' = vtrace \o events
    /\ UNCHANGED vres

VConfig == <<url_supported, platform_remotes, supported_remotes, remote_image_host_map>>

\* fetch_image(), lines 88-110: every image host is asked for the base
\* image of the instance; the image built from a match is local to the loop
\* body, an exception of a host is caught and the next host is asked
full_hash_loop(knows) ==
    [i \in 1..(2 * Len(image_hosts)) |->
        IF i % 2 = 1 THEN FullHash(image_hosts[(i + 1) \div 2])
        ELSE HashInfo(knows[image_hosts[i \div 2]])]

\* a lookup whose handler takes not-found only
lookup_catches_mut(e) == e = LXDNotFoundException

\* fetch_image(), lines 112-115: the handler of the lookup takes every
\* std::exception
lookup_catches(e) == e \in TransportExceptions

\* fetch_image(), lines 79-115: the lookup of an already existing instance;
\* whatever it finds or raises is dropped
fetch_image(q) ==
    /\ vpc = "idle"
    /\ query' = q
    /\ UNCHANGED <<vmvars, fnvars, VConfig, info>>
    /\ \/ \E knows \in [Hosts -> BOOLEAN] :
            VGoto("check", <<GetInstance, Instance("found")>> \o full_hash_loop(knows))
       \/ \E e \in TransportExceptions :
            IF lookup_catches(e)
            THEN VGoto("check", <<GetInstance, Instance(e)>>)
            ELSE VFinish(e, <<GetInstance, Instance(e)>>)

\* the check with its negation lost
unsupported_source_mut(q, url) == q.query_type # "Alias" /\ url

\* fetch_image(), line 118: the sources this backend refuses
unsupported_source(q, url) == q.query_type # "Alias" /\ ~url

fetch_check ==
    /\ vpc = "check"
    /\ UNCHANGED <<vmvars, fnvars, VConfig, query, info>>
    /\ IF unsupported_source(query, url_supported)
       THEN VFinish(UnsupportedSource, <<>>)
       ELSE VGoto("info_for", <<>>)

\* the loop goes on after a match
stop_asking_mut(answer) == FALSE

\* info_for(), lines 253-258: the first match is returned
stop_asking(answer) == answer # nullopt

\* the image hosts info_for() asks when no remote is named: in order, up to
\* and including the first one with a match (answers[h] is what h replies)
RECURSIVE AskInOrder(_, _)
AskInOrder(answers, i) ==
    IF i > Len(image_hosts) THEN <<>>
    ELSE IF stop_asking(answers[image_hosts[i]]) THEN <<image_hosts[i]>>
    ELSE <<image_hosts[i]>> \o AskInOrder(answers, i + 1)

\* the first image host is asked whatever the remote
host_of_mut(q, map) == image_hosts[1]

\* info_for(), lines 240 and 244: the image host registered for the remote
host_of(q, map) == map[q.remote_name]

\* LXDVMImageVault::info_for, lines 236-263: the hosts asked and the outcome
info_for(q, map, answers) ==
    IF q.remote_name # ""
    THEN IF q.remote_name \notin DOMAIN map
         THEN [asked |-> <<>>, found |-> nullopt, raised |-> UnknownRemote]
         ELSE LET h == host_of(q, map) IN
              [asked |-> <<h>>, found |-> answers[h],
               raised |-> IF answers[h] = nullopt THEN NoMatchingImage ELSE "none"]
    ELSE LET asked == AskInOrder(answers, 1)
             last == asked[Len(asked)]
         IN  [asked |-> asked, found |-> answers[last],
              raised |-> IF answers[last] = nullopt THEN NoMatchingImage ELSE "none"]

\* the calls of VMImageHost::info_for and what each returned
Asked(asked, answers) ==
    [i \in 1..(2 * Len(asked)) |->
        IF i % 2 = 1 THEN InfoFor(asked[(i + 1) \div 2])
        ELSE Reply(answers[asked[i \div 2]])]

\* fetch_image(), line 121
fetch_info_for ==
    /\ vpc = "info_for"
    /\ UNCHANGED <<vmvars, fnvars, VConfig, query>>
    /\ \E answers \in [Hosts -> Images \cup {nullopt}] :
         LET r == info_for(query, remote_image_host_map, answers)
             events == Asked(r.asked, answers)
         IN  IF r.raised # "none"
             THEN /\ VFinish(r.raised, events)
                  /\ UNCHANGED info
             ELSE /\ info' = r.found
                  /\ VGoto("image_get", events)

\* what the GET of the image is answered
ImageReplies == {"found", LXDNotFoundException, LXDFailure}

\* every answer but a failure starts a pull
pull_needed_mut(r) == r # LXDFailure

\* fetch_image(), lines 135-141: the pull is in the handler of
\* LXDNotFoundException
pull_needed(r) == r = LXDNotFoundException

\* fetch_image(), lines 135-139: is the image already there
fetch_image_get ==
    /\ vpc = "image_get"
    /\ UNCHANGED <<vmvars, fnvars, VConfig, query, info>>
    /\ \E r \in ImageReplies :
         IF pull_needed(r) THEN VGoto("post", <<GetImage, Reply(r)>>)
         ELSE IF r = "found" THEN VFinish(info, <<GetImage, Reply(r)>>)
         ELSE VFinish(r, <<GetImage, Reply(r)>>)

\* fetch_image(), lines 141-151: the pull request
fetch_post ==
    /\ vpc = "post"
    /\ UNCHANGED <<vmvars, fnvars, VConfig, query, info>>
    /\ \/ \E reply \in JsonReplies :
            IF IsTask(reply) THEN VGoto("poll", <<PostImage>>)
            ELSE VFinish(info, <<PostImage>>)
       \/ \E e \in TransportExceptions : VFinish(e, <<PostImage>>)

\* the loop sleeps before it reports the progress
on_progress_mut(answer) == <<Sleep, Monitor(answer)>>

\* fetch_image(), lines 175-185: the progress monitor is called, and the
\* loop sleeps when it has not asked to stop
on_progress(answer) ==
    IF answer = "continue" THEN <<Monitor(answer), Sleep>> ELSE <<Monitor(answer)>>

\* fetch_image(), lines 158-193: one iteration of the poll loop up to the
\* progress callback
fetch_poll ==
    /\ vpc = "poll"
    /\ UNCHANGED <<vmvars, fnvars, VConfig, query, info>>
    /\ \/ \E reply \in TaskReplies :
            LET got == <<GetTask, Reply(reply_kind(reply))>> IN
            IF poll_ends(reply)
            THEN VFinish(info, got)
            ELSE \/ /\ Count(vtrace, Sleep) < MaxPolls
                    /\ VGoto("poll", got \o on_progress("continue"))
                 \/ VGoto("cancel", got \o on_progress("abort"))
       \/ VFinish(info, <<GetTask, Reply(LXDNotFoundException)>>)  \* break
       \/ VFinish(LXDFailure, <<GetTask, Reply(LXDFailure)>>)

\* fetch_image(), lines 181-182: the DELETE and the throw; both are inside
\* the try block whose handler (line 189) catches LXDNotFoundException
fetch_cancel ==
    /\ vpc = "cancel"
    /\ UNCHANGED <<vmvars, fnvars, VConfig, query, info>>
    /\ \/ VFinish(AbortedDownloadException, <<DeleteTask>>)
       \/ VFinish(info, <<DeleteTask>>)            \* LXDNotFoundException: break
       \/ VFinish(LXDFailure, <<DeleteTask>>)

\* the caller takes the image or the exception
fetch_return ==
    /\ vpc = "done"
    /\ vpc' = "idle"
    /\ query' = NoQuery
    /\ info' = nullopt
    /\ vtrace' = <<>>
    /\ vres' = "none"
    /\ UNCHANGED <<vmvars, fnvars, VConfig>>

VaultInit ==
    /\ VMInit
    /\ VaultIdle
    /\ FnIdle
    /\ url_supported \in BOOLEAN
    /\ platform_remotes \in SUBSET Remotes
    /\ supported_remotes \in [Hosts -> SUBSET Remotes]
    /\ remote_image_host_map = LXDVMImageVault(supported_remotes, platform_remotes)

VaultNext ==
    \/ \E q \in Queries : fetch_image(q)
    \/ fetch_check
    \/ fetch_info_for
    \/ fetch_image_get
    \/ fetch_post
    \/ fetch_poll
    \/ fetch_cancel
    \/ fetch_return

VaultSpec == VaultInit /\ [][VaultNext]_vars


\* ------------------------------------------------- functions on their own
\* one call of instance_state_for with a reply carrying status_code
map_state ==
    /\ mapped = "none"
    /\ mapped' = instance_state_for(status_code)
    /\ log' = instance_state_log(status_code)
    /\ UNCHANGED <<vmvars, vaultvars, status_code, disk_space, root_size,
                   state_before, state_after, returned, pollvars>>

\* constructor, lines 142-147: the root device of the create request
create_request ==
    /\ root_size = NoSize
    /\ root_size' = get_minimum_disk_size(disk_space)
    /\ UNCHANGED <<vmvars, vaultvars, status_code, mapped, log, disk_space,
                   state_before, state_after, returned, pollvars>>

\* one call of current_state() with the member state state_before and a reply
\* carrying status_code (lines 279-288)
read_state ==
    /\ state_after = "none"
    /\ state_after' = current_state(state_before, instance_state_for(status_code))
    /\ returned' = state_after'
    /\ UNCHANGED <<vmvars, vaultvars, status_code, mapped, log, disk_space, root_size,
                   state_before, pollvars>>

FnInit ==
    /\ VMInit
    /\ VaultIdle
    /\ url_supported = FALSE
    /\ platform_remotes = Remotes
    /\ supported_remotes = [h \in Hosts |-> Remotes]
    /\ remote_image_host_map = LXDVMImageVault(supported_remotes, platform_remotes)
    /\ status_code \in AllCodes
    /\ disk_space \in DiskSizes
    /\ mapped = "none"
    /\ log = <<>>
    /\ root_size = NoSize
    /\ state_before \in States
    /\ state_after = "none"
    /\ returned = "none"
    /\ poller = "none"
    /\ script = <<>>
    /\ gets = 0
    /\ sleeps = 0
    /\ poll_status = "idle"

FnNext == map_state \/ create_request \/ read_state

FnSpec == FnInit /\ [][FnNext]_vars

\* ------------------------------------------------- a poll loop on its own
\* a counter of iterations, exact up to MaxPolls + 1
counted(n) == IF n < MaxPolls + 1 THEN n + 1 ELSE n

\* the reply to the GET that follows n GETs
next_reply(replies, n) == replies[IF n < Len(replies) THEN n + 1 ELSE Len(replies)]

\* one iteration of the poll loop of the constructor (part_000 lines
\* 172-198) or of fetch_image (vault lines 158-193) against the next reply
\* of the script; the loop of fetch_image calls the progress monitor before
\* it sleeps and deletes the task and throws when the monitor answers false.
\* The script is the behaviour of the remote: its last reply is the answer
\* to every later GET. Neither loop counts its iterations (while (true)),
\* so the two counters of the model stop counting at MaxPolls + 1.
poll_step ==
    /\ poll_status = "polling"
    /\ gets' = counted(gets)
    /\ UNCHANGED <<vmvars, vaultvars, status_code, mapped, log, disk_space, root_size,
                   state_before, state_after, returned, poller, script>>
    /\ LET reply == next_reply(script, gets) IN
       IF reply.raised = LXDNotFoundException
       THEN poll_status' = "stopped" /\ UNCHANGED sleeps
       ELSE IF reply.raised # "none"
       THEN poll_status' = reply.raised /\ UNCHANGED sleeps
       ELSE IF poll_ends(reply)
       THEN poll_status' = "stopped" /\ UNCHANGED sleeps
       ELSE \/ /\ sleeps' = counted(sleeps)
               /\ poll_status' = "sleeping"
            \/ /\ poller = "pull"
               /\ poll_status' = AbortedDownloadException
               /\ UNCHANGED sleeps

PollInit ==
    /\ VMInit
    /\ VaultIdle
    /\ url_supported = FALSE
    /\ platform_remotes = Remotes
    /\ supported_remotes = [h \in Hosts |-> Remotes]
    /\ remote_image_host_map = LXDVMImageVault(supported_remotes, platform_remotes)
    /\ status_code = -1
    /\ mapped = "none"
    /\ log = <<>>
    /\ disk_space = 0
    /\ root_size = NoSize
    /\ state_before = "off"
    /\ state_after = "none"
    /\ returned = "none"
    /\ poller \in {"create", "pull"}
    /\ script \in Scripts
    /\ gets = 0
    /\ sleeps = 0
    /\ poll_status = "polling"

\* sleep_for(1s) returns (part_000 line 189, vault line 185) and the loop
\* starts its next iteration
poll_sleep ==
    /\ poll_status = "sleeping"
    /\ poll_status' = "polling"
    /\ UNCHANGED <<vmvars, vaultvars, status_code, mapped, log, disk_space, root_size,
                   state_before, state_after, returned, poller, script, gets, sleeps>>

PollNext == poll_step \/ poll_sleep

PollSpec == PollInit /\ [][PollNext]_vars

\* the thread that runs the loop keeps running and the remote answers
\* every GET
PollFairSpec == PollSpec /\ WF_vars(PollNext)

\* steps that continue an operation already under way: the calling thread
\* keeps running, the remote answers every request
Progress(t) ==
    \/ ctor_read(t) \/ ctor_post(t) \/ ctor_poll(t) \/ ctor_reread(t)
    \/ start_check(t) \/ start_set(t)
    \/ stop_branch(t) \/ stop_wait(t) \/ stop_put(t) \/ stop_woken(t)
    \/ ssh_ensure(t) \/ ssh_getip(t)
    \/ Return(t)

FairSpec == Spec /\ \A t \in Threads : WF_vars(Progress(t))

\* ------------------------------------------------------------------ claims
Done(t, name) == pc[t] = "done" /\ op[t] = name
Returned(t, name) == Done(t, name) /\ res[t] = "void"

RemoteCalls(s) == SelectSeq(s, RemoteCall)
IsStateWrite(e) == e[1] = "state"
IsPersist(e) == e[1] = "persist_state_for"
NotRead(e) == e # GetState /\ e # SetState("present_state") /\ e[1] # "reply"
\* what an operation did after its authoritative read
AfterRead(s) == SelectSeq(s, NotRead)
Has(s, e) == \E i \in DOMAIN s : s[i] = e

\* C1: a stop() that found the state starting and sleeps on the condition
\* signal returns, with the local state stopped, once another thread has run
\* the readiness guard.
C1_StopWhileStartingReturns ==
    \A t \in Threads :
        (/\ t \in state_wait
         /\ \E u \in Threads \ {t} : Returned(u, "ensure_vm_is_running"))
        ~> (Returned(t, "stop") /\ state = "stopped")

\* C2: when stop() returns and leaves the instance stopped, the cached IP
\* address is empty.
C2_StopClearsIp ==
    \A t \in Threads :
        (Returned(t, "stop") /\ state = "stopped") => ip = nullopt

\* C3 (as stated): stop() on an instance that is already stopped performs no
\* remote calls.
C3_StopWhenStoppedNoRemoteCalls ==
    \A t \in Threads :
        (Done(t, "stop") /\ present[t] = "stopped" /\ ~Has(trace[t], SetState("present_state")))
            => RemoteCalls(trace[t]) = <<>>

\* C3 (amended): stop() whose authoritative read returns stopped performs
\* exactly one remote call, the GET of that read, issues no PUT, assigns
\* nothing to the local state itself and persists the state it found.
C3_StopWhenStoppedOnlyReads ==
    \A t \in Threads :
        (Done(t, "stop") /\ present[t] = "stopped")
            => /\ res[t] = "void"
               /\ RemoteCalls(trace[t]) = <<GetState>>
               /\ Len(AfterRead(trace[t])) = 1
               /\ IsPersist(AfterRead(trace[t])[1])

C3_Witness ==
    \E t \in Threads :
        /\ Returned(t, "stop")
        /\ present[t] = "stopped"
        /\ trace[t] = <<GetState, Persist("stopped")>>
        /\ state = "stopped"

\* C4: start() returns without a PUT when the authoritative state is running,
\* asks for "unfreeze" when the state is suspended and for "start" in every
\* other state but suspending; after the PUT it sets starting and persists it.
C4_StartActions ==
    [][\A t \in Threads :
        /\ (pc[t] = "start_check" /\ pc'[t] # "start_check") =>
              /\ present[t] = "running" =>
                    (pc'[t] = "done" /\ res'[t] = "void" /\ trace'[t] = trace[t]
                        /\ state' = state)
              /\ (present[t] \notin {"running", "suspending"} /\ state = "suspended") =>
                    trace'[t] = Append(trace[t], Put("unfreeze"))
              /\ (present[t] \notin {"running", "suspending"} /\ state # "suspended") =>
                    trace'[t] = Append(trace[t], Put("start"))
        /\ (pc[t] = "start_set" /\ pc'[t] # "start_set") =>
              /\ pc'[t] = "done" /\ res'[t] = "void"
              /\ state' = "starting"
              /\ trace'[t][Len(trace'[t])] = Persist("starting")
        /\ (op'[t] = "start" /\ pc[t] # "done" /\ pc'[t] = "done" /\ res'[t] = "void"
                /\ \E i \in DOMAIN trace'[t] : trace'[t][i][1] = "PUT")
              => (pc[t] = "start_set" /\ state' = "starting")]_vars

C4_Witness ==
    \E t \in Threads :
        /\ Returned(t, "start")
        /\ Has(trace[t], Put("unfreeze"))
        /\ ~Has(trace[t], Put("start"))
        /\ trace[t][Len(trace[t])] = Persist("starting")
        /\ state = "starting"

\* C5 (as stated): a start() rejected because the state is suspending issues
\* no PUT and leaves the local state as it was before the call.
C5_RejectedStartLeavesState ==
    \A t \in Threads :
        (Done(t, "start") /\ res[t] = StartWhileSuspending)
            => /\ \A i \in DOMAIN trace[t] : trace[t][i][1] # "PUT"
               /\ \A i \in DOMAIN trace[t] : ~IsStateWrite(trace[t][i])

\* C5 (amended): start() is rejected exactly when its authoritative read
\* returns suspending; it then issues no PUT, and the only write to the local
\* state is the one of that read, which leaves it suspending.
C5_RejectedStartOnlyReads ==
    \A t \in Threads :
        Done(t, "start") =>
            /\ (present[t] = "suspending") <=> (res[t] = StartWhileSuspending)
            /\ present[t] = "suspending" =>
                  trace[t] \in {<<GetState>>, <<GetState, SetState("present_state")>>}

C5_Witness ==
    \E t \in Threads :
        /\ Done(t, "start")
        /\ res[t] = StartWhileSuspending
        /\ trace[t] = <<GetState, SetState("present_state")>>
        /\ state = "suspending"

\* C6: suspend() raises in every state, makes no remote call and changes
\* neither the local state nor the cached IP.
C6_SuspendRejected ==
    [][\A t \in Threads :
        (pc[t] = "idle" /\ op'[t] = "suspend") =>
            /\ pc'[t] = "done"
            /\ res'[t] = SuspendUnsupported
            /\ trace'[t] = <<>>
            /\ state' = state
            /\ ip' = ip
            /\ port' = port]_vars

C6_Witness ==
    \E t \in Threads :
        /\ Done(t, "suspend")
        /\ res[t] = SuspendUnsupported
        /\ state = "running"
        /\ ip # nullopt

\* C7: stop() on a running or delayed_shutdown instance issues one "stop"
\* PUT, then one GET on the wait URL exactly when the reply is a task in
\* flight, assigns stopped only after that, and persists stopped.
C7_StopWaitsThenStops ==
    \A t \in Threads :
        (op[t] = "stop" /\ present[t] \in {"running", "delayed_shutdown"}
            /\ pc[t] \in {"stop_wait", "done"})
        => LET did == AfterRead(trace[t])
               inflight == /\ state_task[t].class = "task"
                           /\ state_task[t].status_code = 100
           IN  /\ Count(trace[t], Put("stop")) = 1
               /\ pc[t] = "stop_wait" => (inflight /\ did = <<Put("stop")>>)
               /\ Returned(t, "stop") =>
                     /\ state = "stopped"
                     /\ inflight =>
                           did \in {<<Put("stop"), GetWait, SetState("stopped"), Persist("stopped")>>,
                                    <<Put("stop"), GetWait, Persist("stopped")>>}
                     /\ ~inflight =>
                           did \in {<<Put("stop"), SetState("stopped"), Persist("stopped")>>,
                                    <<Put("stop"), Persist("stopped")>>}
               /\ (pc[t] = "done" /\ res[t] # "void") =>
                     did \in {<<Put("stop")>>, <<Put("stop"), GetWait>>}

C7_Witness ==
    \E t \in Threads :
        /\ Returned(t, "stop")
        /\ present[t] = "delayed_shutdown"
        /\ AfterRead(trace[t]) = <<Put("stop"), GetWait, SetState("stopped"), Persist("stopped")>>
        /\ state = "stopped"

\* C8: when an operation returns or raises, every change it made to the
\* local state has been followed by persist_state_for with the state it left.
C8_ChangesArePersisted ==
    \A t \in Threads :
        pc[t] = "done" =>
            \A i \in DOMAIN trace[t] :
                IsStateWrite(trace[t][i]) =>
                    \E j \in DOMAIN trace[t] : j > i /\ IsPersist(trace[t][j])

\* C9: once the progress callback has signalled abort, fetch_image ends by
\* raising the aborted-download condition, whatever the DELETE is answered.
C9_AbortRaisesAborted ==
    (vpc = "done" /\ Has(vtrace, Monitor("abort"))) => vres = AbortedDownloadException

C11_FoundImageIsReturned ==
    Has(vtrace, Reply("found"))
        => /\ vpc = "done"
           /\ vres = info
           /\ info \in Images
           /\ ~Has(vtrace, PostImage)
           /\ ~Has(vtrace, GetTask)
           /\ \A i \in DOMAIN vtrace : vtrace[i][1] # "monitor"
           /\ vtrace[Len(vtrace)] = Reply("found")

C11_Witness ==
    /\ vpc = "done"
    /\ Has(vtrace, Reply("found"))
    /\ vres = info
    /\ RemoteCalls(vtrace) = <<GetInstance, GetImage>>

\* info_for() has run for the query of the fetch_image under way
Resolved ==
    \/ vpc \in {"image_get", "post", "poll", "cancel"}
    \/ vpc = "done" /\ vres # UnsupportedSource

IsInfoFor(e) == e[1] = "info_for"
\* the image hosts the fetch_image under way has asked, in order
HostsAsked(s) == [i \in DOMAIN SelectSeq(s, IsInfoFor) |-> SelectSeq(s, IsInfoFor)[i][2]]
\* what image host h answered when it was asked
AnswerOf(s, h) == s[(CHOOSE i \in DOMAIN s : s[i] = InfoFor(h)) + 1][2]

\* C12: for a query that names a remote, info_for fails with "unknown
\* remote" without asking any image host when the remote is not in the
\* registry; otherwise it asks the image host registered for the remote and
\* no other, fails with "no matching image" when that host has no match,
\* and resolves to that host's match when it has one.
C12_NamedRemoteAsksOneHost ==
    (Resolved /\ query.remote_name # "")
        => IF query.remote_name \notin DOMAIN remote_image_host_map
           THEN /\ vpc = "done"
                /\ vres = UnknownRemote
                /\ HostsAsked(vtrace) = <<>>
           ELSE LET h == remote_image_host_map[query.remote_name] IN
                /\ HostsAsked(vtrace) = <<h>>
                /\ vres # UnknownRemote
                /\ IF AnswerOf(vtrace, h) = nullopt
                   THEN vpc = "done" /\ vres = NoMatchingImage
                   ELSE info = AnswerOf(vtrace, h) /\ vres # NoMatchingImage

C12_Witness ==
    /\ vpc = "done"
    /\ vres = NoMatchingImage
    /\ query.remote_name = "daily"
    /\ HostsAsked(vtrace) = <<"h2">>
    /\ AnswerOf(vtrace, "h2") = nullopt

\* C13: for a query that names no remote, info_for asks the image hosts in
\* the order of image_hosts and stops at the first one with a match, whose
\* match it resolves to; it fails with "no matching image" exactly when
\* every image host was asked and none had a match.
C13_FirstMatchInOrder ==
    (Resolved /\ query.remote_name = "")
        => LET asked == HostsAsked(vtrace)
               n == Len(asked)
           IN  /\ n \in 1..Len(image_hosts)
               /\ asked = SubSeq(image_hosts, 1, n)
               /\ \A i \in 1..(n - 1) : AnswerOf(vtrace, asked[i]) = nullopt
               /\ vres # UnknownRemote
               /\ (vpc = "done" /\ vres = NoMatchingImage)
                     <=> (n = Len(image_hosts)
                            /\ \A i \in 1..n : AnswerOf(vtrace, asked[i]) = nullopt)
               /\ AnswerOf(vtrace, asked[n]) # nullopt
                     => info = AnswerOf(vtrace, asked[n])

C13_Witness ==
    /\ vpc = "done"
    /\ query.remote_name = ""
    /\ HostsAsked(vtrace) = <<"h1">>
    /\ AnswerOf(vtrace, "h1") = "img2"
    /\ vres = "img2"

IsPoll(e) == e = GetTask \/ e = Sleep
\* the events of an operation from its i-th on
From(s, i) == SubSeq(s, i, Len(s))
\* the events between the create POST and the read that follows the polls
Polls(s) == SelectSeq(s, IsPoll)

\* C14: the constructor sends the create POST exactly when its first state
\* read is answered not-found; a constructor that returns after it has
\* polled the task of the POST reply, when that reply is a task in flight,
\* sleeping after every poll but the last, then read the state once more,
\* and the local state is the value of that last read; when the first read
\* succeeds the read is the only request.
C14_CreateWhenNotFound ==
    \A t \in Threads :
        op[t] = "ctor" =>
            LET tr == trace[t]
                notfound == Len(tr) >= 2 /\ tr[2] = Reply(LXDNotFoundException)
                polls == Polls(tr)
                n == Len(polls)
            IN  /\ Has(tr, PostCreate) => (notfound /\ tr[3] = PostCreate)
                /\ (notfound /\ pc[t] # "ctor_post") => Count(tr, PostCreate) = 1
                /\ polls # <<>> => (Has(tr, PostCreate) /\ IsTask(state_task[t]))
                /\ (pc[t] = "done" /\ ~notfound) => RemoteCalls(tr) = <<GetState>>
                /\ (Returned(t, "ctor") /\ notfound) =>
                      /\ From(tr, 3) \in
                            {<<PostCreate>> \o polls \o <<GetState>>,
                             <<PostCreate>> \o polls \o <<GetState, SetState("present_state")>>}
                      /\ IsTask(state_task[t]) <=> n > 0
                      /\ n > 0 => polls[n] = GetTask
                      /\ \A i \in 1..(n - 1) :
                            (polls[i] = GetTask) <=> (polls[i + 1] = Sleep)
                      /\ n > 0 => polls[1] = GetTask
                /\ Returned(t, "ctor") => state = present[t]

C14_Witness ==
    \E t \in Threads :
        /\ Returned(t, "ctor")
        /\ trace[t] = <<GetState, Reply(LXDNotFoundException), PostCreate,
                        GetTask, Sleep, GetTask, GetState, SetState("present_state")>>
        /\ state = "stopped"

\* C15: no operation of the controller or of the vault ends by raising the
\* transport's not-found signal to its caller.
C15_NotFoundHandledLocally ==
    /\ \A t \in Threads : pc[t] = "done" => res[t] # LXDNotFoundException
    /\ vpc = "done" => vres # LXDNotFoundException

\* C16: an ssh_hostname() whose lookups find no inet address runs the
\* readiness guard and the lookup once per polling interval; it goes on only
\* while the bound has not elapsed, and it raises the could-not-determine-
\* address condition exactly when the bound has elapsed, never earlier and
\* never after a lookup that found an address.
C16_TimeoutAtTheBound ==
    \A t \in Threads :
        op[t] = "ssh_hostname" =>
            LET tr == trace[t]
                elapsed == Count(tr, Sleep)
            IN  /\ pc[t] \in {"ssh_ensure", "ssh_getip"} =>
                      /\ elapsed < TimeoutTicks
                      /\ Count(tr, GetIp) = elapsed
                      /\ Count(tr, GetState) = elapsed + (IF pc[t] = "ssh_getip" THEN 1 ELSE 0)
                /\ (pc[t] = "done" /\ res[t] = IPTimeout) =>
                      /\ elapsed = TimeoutTicks
                      /\ Count(tr, GetState) = TimeoutTicks
                      /\ Count(tr, GetIp) = TimeoutTicks
                      /\ tr[Len(tr)] = Sleep
                      /\ ip = nullopt
                /\ (pc[t] = "done" /\ elapsed = TimeoutTicks) => res[t] = IPTimeout

C16_Witness ==
    \E t \in Threads :
        /\ Done(t, "ssh_hostname")
        /\ res[t] = IPTimeout
        /\ state = "running"
        /\ Count(trace[t], GetIp) = TimeoutTicks
        /\ Count(trace[t], Sleep) = TimeoutTicks

\* C17: a call of ipv4() is over in one step, whoever holds the state mutex:
\* it touches neither the mutex, the condition signal nor the state, sends
\* at most one address lookup and sleeps never; with an address cached it
\* returns that address without a lookup, otherwise it returns the address
\* its lookup found and caches it, or returns "UNKNOWN" and caches nothing.
C17_Ipv4SingleLookup ==
    [][\A t \in Threads :
        (pc[t] = "idle" /\ op'[t] = "ipv4") =>
            /\ pc'[t] = "done"
            /\ state_mutex' = state_mutex
            /\ state_wait' = state_wait
            /\ state' = state
            /\ IF ip # nullopt
               THEN trace'[t] = <<>> /\ res'[t] = ip /\ ip' = ip
               ELSE /\ trace'[t] = <<GetIp>>
                    /\ \/ res'[t] = "UNKNOWN" /\ ip' = nullopt
                       \/ res'[t] \in Addresses /\ ip' = res'[t]
                       \/ res'[t] \in TransportExceptions /\ ip' = nullopt]_vars

C17_Witness ==
    \E t \in Threads :
        /\ Done(t, "ipv4")
        /\ res[t] = "UNKNOWN"
        /\ trace[t] = <<GetIp>>
        /\ ip = nullopt
        /\ state_mutex \in Threads \ {t}

\* the state the mapper is documented to return for a status code
Documented(code) ==
    IF code \in {101, 103, 107, 111} THEN "running"
    ELSE IF code = 102 THEN "stopped"
    ELSE IF code = 106 THEN "starting"
    ELSE IF code = 109 THEN "suspending"
    ELSE IF code = 110 THEN "suspended"
    ELSE "unknown"
DefinedCodes == {101, 102, 103, 104, 106, 107, 108, 109, 110, 111}

C19_RootDiskAtLeastMinimum ==
    root_size # NoSize =>
        /\ root_size >= 10
        /\ root_size >= disk_space
        /\ root_size \in {10, disk_space}
        /\ disk_space <= 10 => root_size = 10
        /\ disk_space > 10 => root_size = disk_space

C19_Witness ==
    /\ disk_space = 5
    /\ root_size = 10

\* C20: a run of the readiness guard that finds the local state off and
\* gets a status from the remote sets the local state to stopped, notifies
\* the waiters of the condition signal and raises StartException.
C20_GuardFailsWhenOff ==
    [][\A t \in Threads :
        (/\ \/ pc[t] = "idle" /\ op'[t] = "ensure_vm_is_running"
            \/ pc[t] = "ssh_ensure" /\ pc'[t] # "ssh_ensure"
         /\ state = "off"
         /\ res'[t] \notin TransportExceptions)
        => /\ state' = "stopped"
           /\ res'[t] = StartException
           /\ Has(trace'[t], Notify)]_vars

\* C21: when ssh_hostname() is retrying and a stop() of another thread has
\* taken effect (it set the local state off, sent its PUT and waits on the
\* condition signal), the next readiness check of the loop ends
\* ssh_hostname() with an error.
C21_StopEndsDiscovery ==
    [][\A t \in Threads :
        (/\ pc[t] = "ssh_ensure"
         /\ pc'[t] # "ssh_ensure"
         /\ Count(trace[t], Sleep) >= 1
         /\ state = "off"
         /\ \E u \in Threads \ {t} : op[u] = "stop" /\ u \in state_wait)
        => (pc'[t] = "done" /\ res'[t] \in Exceptions)]_vars

\* t takes a step of an operation named in ops that reads or writes the
\* local state, sends a request or waits
ActsIn(t, ops) ==
    /\ pc[t] # "done"
    /\ trace'[t] # trace[t]
    /\ \/ op'[t] \in ops
       \/ "ensure_vm_is_running" \in ops /\ pc[t] = "ssh_ensure"

\* C22: no step in which start(), stop() or the readiness guard reads or
\* writes the local state is taken while another thread holds the state
\* mutex.
C22_StateAccessUnderMutex ==
    [][\A t \in Threads :
        ActsIn(t, {"start", "stop", "ensure_vm_is_running"})
            => state_mutex \in {NoThread, t}]_vars

\* C23: current_state() keeps and returns the local state when that state is
\* starting, or when it is delayed_shutdown and the remote maps to running;
\* otherwise it sets the local state to the mapped remote state and returns
\* that.  A read made while the local state is starting therefore leaves it
\* starting whatever the remote reports.
C23_ReadPrecedence ==
    state_after # "none" =>
        LET remote == Documented(status_code)
            kept == \/ state_before = "starting"
                    \/ state_before = "delayed_shutdown" /\ remote = "running"
        IN  /\ returned = state_after
            /\ kept => state_after = state_before
            /\ ~kept => state_after = remote
            /\ state_before = "starting" => state_after = "starting"

C23_Witness ==
    /\ state_before = "starting"
    /\ status_code = 102
    /\ state_after = "starting"
    /\ returned = "starting"

InProgress(r) == r.raised = "none" /\ r.error_code = 0 /\ r.status_code # 200
Success(r) == r.raised = "none" /\ r.error_code = 0 /\ r.status_code = 200
NotFound(r) == r.raised = LXDNotFoundException

\* C24: against a script of k in-progress replies followed by a success
\* reply or a not-found, a poll loop that is not cancelled sends exactly k+1
\* GETs, sleeps exactly k times and then leaves the loop without raising,
\* for not-found as for success.
C24_PollCounts ==
    \A k \in 0..(Len(script) - 1) :
        (/\ \A i \in 1..k : InProgress(script[i])
         /\ Success(script[k + 1]) \/ NotFound(script[k + 1])
         /\ poll_status # AbortedDownloadException)
        => /\ gets <= k + 1
           /\ gets < k + 1 => (poll_status \in {"polling", "sleeping"} /\ sleeps = gets)
           /\ gets = k + 1 => (poll_status = "stopped" /\ sleeps = k)

C24_Witness ==
    /\ poller = "pull"
    /\ Len(script) = 3
    /\ InProgress(script[1]) /\ InProgress(script[2]) /\ NotFound(script[3])
    /\ poll_status = "stopped"
    /\ gets = 3
    /\ sleeps = 2

\* C25: once a poll reply of an image pull has carried a non-zero error
\* code, no further poll is sent and fetch_image ends in failure: it
\* returns no image.
C25_PullErrorFails ==
    Has(vtrace, Reply("error"))
        => /\ vtrace[Len(vtrace)] = Reply("error")
           /\ vpc = "done"
           /\ vres \notin Images

IsMonitor(e) == e[1] = "monitor"
IsTaskReply(e) == e[1] = "reply" /\ e[2] \in {"in progress", "success", "error"}

\* C26: in the poll loop of fetch_image the progress monitor is called once
\* after each in-progress reply and only then, and the sleep follows the
\* call; after the monitor has asked to stop one DELETE of the task is sent
\* and neither a GET nor a sleep follows.
C26_ProgressAndCancel ==
    LET n == Len(vtrace) IN
    /\ \A i \in 1..n :
          /\ vtrace[i] = Reply("in progress") => (i < n /\ IsMonitor(vtrace[i + 1]))
          /\ IsMonitor(vtrace[i]) => vtrace[i - 1] = Reply("in progress")
          /\ vtrace[i] = Monitor("continue") => (i < n /\ vtrace[i + 1] = Sleep)
          /\ vtrace[i] = Sleep => vtrace[i - 1] = Monitor("continue")
          /\ (IsTaskReply(vtrace[i]) /\ vtrace[i] # Reply("in progress")) => i = n
          /\ vtrace[i] = Monitor("abort") =>
                \/ vpc = "cancel" /\ i = n
                \/ vpc = "done" /\ i = n - 1 /\ vtrace[n] = DeleteTask
          /\ vtrace[i] = DeleteTask => vtrace[i - 1] = Monitor("abort")
    /\ Count(vtrace, DeleteTask) <= 1

C26_Witness ==
    /\ vpc = "done"
    /\ Has(vtrace, Monitor("continue"))
    /\ Count(vtrace, Reply("in progress")) = 2
    /\ vtrace[Len(vtrace) - 1] = Monitor("abort")
    /\ vtrace[Len(vtrace)] = DeleteTask

\* C27: a stop() whose wait GET was answered with a non-zero error code
\* does not set the local state to stopped.
C27_WaitErrorNotStopped ==
    \A t \in Threads :
        (Done(t, "stop") /\ Has(trace[t], GetWait) /\ Has(trace[t], Reply("error")))
            => /\ ~Has(trace[t], SetState("stopped"))
               /\ state # "stopped"

\* C28: a poll loop ends for every behaviour of the remote, also when the
\* remote answers every GET of the task with a task still in progress.
C28_PollerTerminates == <>(poll_status \notin {"polling", "sleeping"})

IsLookup(e) == e = GetInstance \/ e[1] \in {"instance", "info_for_full_hash", "hash_info"}
NotLookup(e) == ~IsLookup(e)
\* what the lookup of fetch_image did, and what fetch_image did after it
LookupOf(s) == SelectSeq(s, IsLookup)
AfterLookup(s) == SelectSeq(s, NotLookup)

\* C29: the lookup of an existing instance has no effect on fetch_image.
\* Whether the instance is found, not found or the GET fails, and whatever
\* the image hosts know of its base image, the lookup comes first and only
\* once, fetch_image goes on to the check of the source type with no result
\* and no image kept, and what it ends with comes from what followed the
\* lookup: a source refused without a request, an image that is the one
\* info_for resolved for the query, a transport failure that answers a
\* request sent after the lookup.
C29_LookupHasNoEffect ==
    vpc # "idle" =>
        LET after == AfterLookup(vtrace)
            hosts == HostsAsked(after)
        IN  /\ vtrace = LookupOf(vtrace) \o after
            /\ LookupOf(vtrace)[1] = GetInstance
            /\ Count(vtrace, GetInstance) = 1
            /\ vpc = "check" => (after = <<>> /\ vres = "none" /\ info = nullopt)
            /\ vpc # "check" =>
                  IF unsupported_source(query, url_supported)
                  THEN vpc = "done" /\ vres = UnsupportedSource /\ after = <<>>
                  ELSE vres # UnsupportedSource
            /\ vres \in Images =>
                  /\ vres = info
                  /\ hosts # <<>>
                  /\ info = AnswerOf(after, hosts[Len(hosts)])
                  /\ Has(after, GetImage)
            /\ vres \in TransportExceptions =>
                  \/ Has(after, Reply(vres))
                  \/ after # <<>> /\ after[Len(after)] \in {PostImage, DeleteTask}

\* the instance exists and an image host knows its base image; the image
\* returned is the resolved one, pulled because the remote did not have it
C29_Witness ==
    /\ vpc = "done"
    /\ vres \in Images
    /\ Has(vtrace, Instance("found"))
    /\ Has(vtrace, HashInfo(TRUE))
    /\ Has(vtrace, PostImage)

\* C30: a start() that finds the local state starting keeps it starting and
\* returns starting from its read whatever the remote reports, running
\* included; while the local state is still starting it then sends a PUT
\* "start" instead of returning, and ends by setting starting again.
C30_StartWhileStarting ==
    [][\A t \in Threads :
        /\ (pc[t] = "idle" /\ pc'[t] = "start_check" /\ state = "starting") =>
              /\ state' = "starting"
              /\ present'[t] = "starting"
        /\ (pc[t] = "start_check" /\ pc'[t] # "start_check"
                /\ present[t] = "starting" /\ state = "starting") =>
              /\ trace'[t] = Append(trace[t], Put("start"))
              /\ state' = "starting"
              /\ pc'[t] = "done" => res'[t] \in TransportExceptions
        /\ (pc[t] = "start_set" /\ pc'[t] # "start_set" /\ present[t] = "starting") =>
              /\ state' = "starting"
              /\ res'[t] = "void"]_vars

\* a start() returned after it found the local state starting while the
\* remote reported running: it sent the PUT and left the state starting
C30_Witness ==
    \E t \in Threads :
        /\ Returned(t, "start")
        /\ trace[t] = <<GetState, Reply("running"), Put("start"), Persist("starting")>>
        /\ present[t] = "starting"
        /\ state = "starting"

\* the positions in image_hosts of the hosts that report remote r
Reporting(r) == {i \in DOMAIN image_hosts : r \in supported_remotes[image_hosts[i]]}
Latest(S) == CHOOSE i \in S : \A j \in S : j <= i

\* C31: the registry built by the constructor holds a remote exactly when
\* some image host reports it and the platform supports it, and it maps the
\* remote to one host: of the hosts that report it, the one latest in the
\* order of image_hosts.
C31_LatestHostServes ==
    /\ DOMAIN remote_image_host_map =
          {r \in Remotes : Reporting(r) # {} /\ r \in platform_remotes}
    /\ \A r \in DOMAIN remote_image_host_map :
          /\ remote_image_host_map[r] \in Hosts
          /\ remote_image_host_map[r] = image_hosts[Latest(Reporting(r))]

\* both hosts report "daily" and the platform supports it, "release" is
\* reported but not supported; a fetch_image from "daily" has asked the
\* second host and no other
C31_Witness ==
    /\ Reporting("daily") = {1, 2}
    /\ Reporting("release") # {}
    /\ platform_remotes = {"daily"}
    /\ DOMAIN remote_image_host_map = {"daily"}
    /\ remote_image_host_map["daily"] = image_hosts[2]
    /\ vpc = "done"
    /\ query.remote_name = "daily"
    /\ HostsAsked(vtrace) = <<image_hosts[2]>>

====
